---------------------------- MODULE Spec2Model ----------------------------
(***************************************************************************)
(* Deposit detection and dispatch of the centralized LST backend:          *)
(* BlockchainMonitor (src/src/services/database.ts, lines 70-259) with its *)
(* websocket subscription, reconnect timer, polling interval, the          *)
(* processedSignatures set and the call of TransactionHandler.handleDeposit*)
(* (src/src/services/transaction-handler.ts).                              *)
(*                                                                         *)
(* Every action is one run-to-completion step of the Node event loop: an   *)
(* event handler or the continuation of an await, up to its next await.    *)
(***************************************************************************)
EXTENDS Integers, Sequences, FiniteSets, Bags, TLC

(***************************************************************************)
(* Bounds of the model.  Capacity stands for the 1000 kept signatures of   *)
(* database.ts:219 and Limit for the `limit: 5` of database.ts:161; both   *)
(* are scaled down together, Capacity staying above Limit, so that one     *)
(* list of recent signatures never fills the set.                           *)
(***************************************************************************)
NumSigs == 4
MaxScans == 2
MaxSockets == 3
MaxInvocations == 2
MaxStops == 2
Capacity == 3
Limit == 2

\* sig.signature of the first transaction of the address, the one whose
\* deliveries and handler failures are recorded
Watched == 1

\* config.depositAddress
DepositAddress == "deposit"

\* the program id compared in handleTransaction
SystemProgram == "11111111111111111111111111111111"

\* the members of a Set kept as the sequence of its insertions
Range(s) == {s[i] : i \in 1..Len(s)}

(***************************************************************************)
(* Transaction records as getParsedTransaction returns them.               *)
(***************************************************************************)
Transfer(src, dst, lamports) ==
    [programId |-> SystemProgram,
     parsed |-> [type |-> "transfer",
                 info |-> [source |-> src, destination |-> dst, lamports |-> lamports]]]

\* a successful transfer to the deposit address
DepositShape ==
    [err |-> FALSE, instructions |-> <<Transfer("alice", DepositAddress, 5)>>,
     innerInstructions |-> <<>>, nullGroup |-> FALSE]

\* the same transfer in a transaction that failed on chain
FailedShape ==
    [err |-> TRUE, instructions |-> <<Transfer("alice", DepositAddress, 5)>>,
     innerInstructions |-> <<>>, nullGroup |-> FALSE]

\* a successful transfer between two other accounts
OtherShape ==
    [err |-> FALSE, instructions |-> <<Transfer("alice", "bob", 5)>>,
     innerInstructions |-> <<>>, nullGroup |-> FALSE]

TxShapes == {DepositShape, FailedShape, OtherShape}

\* a successful transfer to the deposit address in a record of unexpected
\* shape: meta.innerInstructions holds a null entry, on which the
\* `g.instructions` of the flatMap callback throws a TypeError
NullGroupShape ==
    [err |-> FALSE, instructions |-> <<Transfer("alice", DepositAddress, 5)>>,
     innerInstructions |-> <<>>, nullGroup |-> TRUE]

MakeTx(sig, shape) ==
    [signatures |-> <<sig>>, err |-> shape.err,
     instructions |-> shape.instructions,
     innerInstructions |-> shape.innerInstructions,
     nullGroup |-> shape.nullGroup]

VARIABLES
    started,              \* main has called startHeliusMonitoring
    ws,                   \* this.ws: index into sockets, 0 for null
    sockets,              \* readyState of every WebSocket created so far
    subscribes,           \* accountSubscribe requests sent on each socket
    isReconnecting,       \* this.isReconnecting
    reconnectTimers,      \* pending setTimeout callbacks of reconnect()
    pollingInterval,      \* this.pollingInterval: "null", "live" or "cleared"
    leakedIntervals,      \* live interval timers whose handle was overwritten
    stops,                \* calls of stop() so far
    afterStop,            \* what happened after the first stop()
    suppressed,           \* a reconnect() call returned early while a timer was pending
    chain,                \* the transactions of the deposit address, oldest first
    processedSignatures,  \* this.processedSignatures, in insertion order
    scans,                \* the running executions of checkRecentTransactions, a bag
    invoked,              \* calls of handleDeposit per signature
    delivered,            \* the sources whose scans passed transaction Watched to handleTransaction
    failed,               \* holds Watched once a handleDeposit of it ended in its catch block
    handled,              \* the deposits handleDeposit was called with
    minted,               \* the lstSOL amounts minted by mintLSTToUser
    positions,            \* the positions collection, one document per userPublicKey
    deposits,             \* the deposits collection: the signatures saveDeposit inserted
    balances,             \* the lstSOL each user holds on chain
    yields,               \* the users startYieldGeneration was called for
    credited,             \* per user, the lamports of the deposits whose handleDeposit ran through
    withdrawals,          \* the withdrawals collection
    discarded             \* how the message handler ended for the last message it dropped

connVars == <<started, ws, sockets, subscribes, isReconnecting, reconnectTimers,
              pollingInterval, leakedIntervals, stops, afterStop, suppressed>>
dispVars == <<chain, processedSignatures, invoked, delivered, failed, handled,
              minted, positions, deposits, balances, yields, credited,
              withdrawals, discarded>>
vars == <<started, ws, sockets, subscribes, isReconnecting, reconnectTimers,
          pollingInterval, leakedIntervals, stops, afterStop, suppressed,
          chain, processedSignatures, scans, invoked, delivered, failed, handled,
          minted, positions, deposits, balances, yields, credited,
          withdrawals, discarded>>

\* the senders of the transactions
Users == {"alice", "bob"}

Sigs == 1..NumSigs
\* what Advance makes of an execution whose loop has ended
Idle == [pc |-> "idle", src |-> "none", todo |-> <<>>]

Init ==
    /\ started = FALSE
    /\ ws = 0
    /\ sockets = <<>>
    /\ subscribes = <<>>
    /\ isReconnecting = FALSE
    /\ reconnectTimers = 0
    /\ pollingInterval = "null"
    /\ leakedIntervals = 0
    /\ stops = 0
    /\ afterStop = {}
    /\ suppressed = FALSE
    /\ chain = <<>>
    /\ processedSignatures = <<>>
    /\ scans = EmptyBag
    /\ invoked = [s \in Sigs |-> 0]
    /\ delivered = {}
    /\ failed = {}
    /\ handled = {}
    /\ minted = {}
    /\ positions = {}
    /\ deposits = {}
    /\ balances = [u \in Users |-> 0]
    /\ yields = {}
    /\ credited = [u \in Users |-> 0]
    /\ withdrawals = {}
    /\ discarded = "none"



(***************************************************************************)
(* Connection lifecycle: startHeliusMonitoring, the websocket handlers,    *)
(* reconnect and stop.                                                     *)
(***************************************************************************)

\* the subscription state of the monitor, read off the socket this.ws holds
SubscriptionState ==
    IF ws = 0 THEN "Disconnected"
    ELSE IF sockets[ws] = "CONNECTING" THEN "Connecting"
    ELSE IF sockets[ws] = "OPEN" THEN "Subscribed"
    ELSE "Disconnected"

\* a reconnect() without the isReconnecting guard: every call arms a timer
ReconnectUnguarded(flag, timers) ==
    [isReconnecting |-> TRUE, timers |-> timers + 1]

\* reconnect(): an early return while isReconnecting, else the flag is set
\* and one setTimeout is armed
Reconnect(flag, timers) ==
    IF flag
    THEN [isReconnecting |-> TRUE, timers |-> timers]
    ELSE [isReconnecting |-> TRUE, timers |-> timers + 1]

\* the reconnect() call of an error or close handler
CallReconnect ==
    LET r == Reconnect(isReconnecting, reconnectTimers)
    IN /\ isReconnecting' = r.isReconnecting
       /\ reconnectTimers' = r.timers
       /\ suppressed' = (suppressed \/ (isReconnecting /\ reconnectTimers > 0))

\* what happened after stop() was first called
Note(event) ==
    afterStop' = IF stops > 0 THEN afterStop \cup {event} ELSE afterStop

\* startPolling(): setInterval, its handle stored over the previous one,
\* which is not cleared
StartPolling ==
    /\ pollingInterval' = "live"
    /\ leakedIntervals' =
          IF pollingInterval = "live" THEN leakedIntervals + 1 ELSE leakedIntervals

\* startHeliusMonitoring(): a new WebSocket stored in this.ws, its handlers
\* attached, then startPolling()
StartHeliusMonitoring ==
    /\ Len(sockets) < MaxSockets
    /\ sockets' = Append(sockets, "CONNECTING")
    /\ subscribes' = Append(subscribes, 0)
    /\ ws' = Len(sockets) + 1
    /\ StartPolling
    /\ Note("socket")

\* main() with a Helius API key: await monitor.startHeliusMonitoring()
Start ==
    /\ ~started
    /\ started' = TRUE
    /\ StartHeliusMonitoring
    /\ UNCHANGED <<isReconnecting, reconnectTimers, stops, suppressed, scans>>
    /\ UNCHANGED dispVars

\* main() without a Helius API key: a warning is logged and nothing is
\* started
StartWithoutKey ==
    /\ ~started
    /\ started' = TRUE
    /\ UNCHANGED <<ws, sockets, subscribes, isReconnecting, reconnectTimers,
                   pollingInterval, leakedIntervals, stops, afterStop, suppressed, scans>>
    /\ UNCHANGED dispVars

\* the callback of reconnect()'s setTimeout
ReconnectTimeout ==
    /\ reconnectTimers > 0
    /\ reconnectTimers' = reconnectTimers - 1
    /\ StartHeliusMonitoring
    /\ UNCHANGED <<started, isReconnecting, stops, suppressed, scans>>
    /\ UNCHANGED dispVars

\* an open handler that sends the subscription request twice
SendSubscribeTwice(socks, subs) ==
    IF ws # 0 /\ socks[ws] = "OPEN" THEN [subs EXCEPT ![ws] = @ + 2] ELSE subs

\* ws.send() of the open handler, on the socket this.ws holds at that time:
\* the request goes out only on an open socket
SendSubscribe(socks, subs) ==
    IF ws # 0 /\ socks[ws] = "OPEN" THEN [subs EXCEPT ![ws] = @ + 1] ELSE subs

\* ws.on("open"): clears isReconnecting and subscribes
WsOpen(s) ==
    /\ sockets[s] = "CONNECTING"
    /\ sockets' = [sockets EXCEPT ![s] = "OPEN"]
    /\ isReconnecting' = FALSE
    /\ subscribes' = SendSubscribe(sockets', subscribes)
    /\ Note("subscribe")
    /\ UNCHANGED <<started, ws, reconnectTimers, pollingInterval, leakedIntervals,
                   stops, suppressed, scans>>
    /\ UNCHANGED dispVars

\* ws.on("error"), then for a failed handshake ws.on("close") in the same
\* turn: both call reconnect(), the second call finds the flag set.  An
\* established connection is closed by the library after the error and
\* its close event comes later.
WsError(s) ==
    /\ sockets[s] \in {"CONNECTING", "OPEN"}
    /\ sockets' = [sockets EXCEPT ![s] = IF @ = "OPEN" THEN "CLOSING" ELSE "CLOSED"]
    /\ CallReconnect
    /\ UNCHANGED <<started, ws, subscribes, pollingInterval, leakedIntervals,
                   stops, afterStop, scans>>
    /\ UNCHANGED dispVars

\* a close handler that also clears the polling timer
WsCloseStopsPolling(s) ==
    /\ sockets[s] \in {"OPEN", "CLOSING"}
    /\ sockets' = [sockets EXCEPT ![s] = "CLOSED"]
    /\ CallReconnect
    /\ pollingInterval' = IF pollingInterval = "live" THEN "cleared"
                          ELSE pollingInterval
    /\ UNCHANGED <<started, ws, subscribes, leakedIntervals,
                   stops, afterStop, scans>>
    /\ UNCHANGED dispVars

\* ws.on("close"): the peer closed an open connection, or a close started
\* by an error or by stop() has completed
WsClose(s) ==
    /\ sockets[s] \in {"OPEN", "CLOSING"}
    /\ sockets' = [sockets EXCEPT ![s] = "CLOSED"]
    /\ CallReconnect
    /\ UNCHANGED <<started, ws, subscribes, pollingInterval, leakedIntervals,
                   stops, afterStop, scans>>
    /\ UNCHANGED dispVars

\* a close() that ends a closing socket at once instead of leaving it alone
CloseCallTerminates(state) ==
    IF state \in {"CONNECTING", "OPEN"} THEN "CLOSING" ELSE "CLOSED"

\* WebSocket.close(): starts the closing of a connecting or open socket, and
\* does nothing to one that is closing or closed
CloseCall(state) ==
    IF state \in {"CONNECTING", "OPEN"} THEN "CLOSING" ELSE state

\* clearInterval(this.pollingInterval)
ClearCall(handle) ==
    IF handle = "live" THEN "cleared" ELSE handle

\* stop(): what it makes of the sockets and of the interval handle
StopState(st) ==
    [sockets |-> IF st.ws # 0
                 THEN [st.sockets EXCEPT ![st.ws] = CloseCall(@)]
                 ELSE st.sockets,
     ws |-> st.ws,
     pollingInterval |-> IF st.pollingInterval # "null"
                         THEN ClearCall(st.pollingInterval)
                         ELSE st.pollingInterval]

\* the fields of the monitor that stop() reads and writes
MonitorState == [sockets |-> sockets, ws |-> ws, pollingInterval |-> pollingInterval]

\* the SIGINT handler of main(): monitor.stop()
Stop ==
    /\ started
    /\ stops < MaxStops
    /\ stops' = stops + 1
    /\ sockets' = StopState(MonitorState).sockets
    /\ ws' = StopState(MonitorState).ws
    /\ pollingInterval' = StopState(MonitorState).pollingInterval
    /\ UNCHANGED <<started, subscribes, isReconnecting, reconnectTimers,
                   leakedIntervals, afterStop, suppressed, scans>>
    /\ UNCHANGED dispVars

(***************************************************************************)
(* processedSignatures: a JavaScript Set, which iterates in insertion      *)
(* order and ignores the add of a member.                                  *)
(***************************************************************************)
Has(set, sig) == sig \in Range(set)

\* an add() that stores nothing
SetAddForgets(set, sig) == set

SetAdd(set, sig) == IF Has(set, sig) THEN set ELSE Append(set, sig)

\* values().next().value, then delete(): the first member in insertion order
\* goes when the set holds more than the kept number of signatures
Trim(set) == IF Len(set) > Capacity THEN Tail(set) ELSE set

\* the clean-up alone, without "Mark as processed first"
TrimWithoutMark(set, sig) == Trim(set)

\* "Mark as processed first" and "Clean up old signatures" of handleTransaction
MarkAndTrim(set, sig) == Trim(SetAdd(set, sig))

(***************************************************************************)
(* handleTransaction: the instruction scan and its outcome.                *)
(***************************************************************************)
RECURSIVE Flatten(_)
Flatten(groups) ==
    IF groups = <<>> THEN <<>> ELSE Head(groups) \o Flatten(Tail(groups))

\* an instruction list that leaves the inner instructions out
AllInstructionsTopLevel(tx) == tx.instructions

\* main instructions, then the instructions of every inner group
AllInstructions(tx) == tx.instructions \o Flatten(tx.innerInstructions)

\* a match condition that accepts a transfer to any destination
IsDepositAnyDestination(ix) ==
    /\ ix.programId = SystemProgram
    /\ ix.parsed.type = "transfer"

\* the condition of the System Program transfer to the deposit address
IsDeposit(ix) ==
    /\ ix.programId = SystemProgram
    /\ ix.parsed.type = "transfer"
    /\ ix.parsed.info.destination = DepositAddress

\* a loop that keeps the last instruction it matches instead of returning
\* at the first
LastMatch(ixs) ==
    IF \E i \in 1..Len(ixs) : IsDeposit(ixs[i])
    THEN CHOOSE i \in 1..Len(ixs) :
            /\ IsDeposit(ixs[i])
            /\ \A j \in (i + 1)..Len(ixs) : ~IsDeposit(ixs[j])
    ELSE 0

\* index of the first instruction the loop matches, 0 when it matches none
FirstMatch(ixs) ==
    IF \E i \in 1..Len(ixs) : IsDeposit(ixs[i])
    THEN CHOOSE i \in 1..Len(ixs) :
            /\ IsDeposit(ixs[i])
            /\ \A j \in 1..(i - 1) : ~IsDeposit(ixs[j])
    ELSE 0

\* a transaction that succeeded and carries a transfer to the deposit address
IsDepositTx(tx) == ~tx.err /\ FirstMatch(AllInstructions(tx)) # 0

\* the undefined of a record without signatures, which `!signature` rejects
NoSignature == 0

\* tx?.transaction?.signatures?.[0]
FirstSignature(tx) ==
    IF Len(tx.signatures) > 0 THEN tx.signatures[1] ELSE NoSignature

\* building the instruction list throws, into the catch of handleTransaction
Throws(tx) == tx.nullGroup

\* a handleTransaction without the "Skip failed transactions" branch
HandleTransactionIgnoringErr(tx, set) ==
    LET signature == FirstSignature(tx)
        ixs == AllInstructions(tx)
        m == FirstMatch(ixs)
    IN IF signature = NoSignature \/ Has(set, signature)
       THEN [processed |-> set, deposit |-> <<>>]
       ELSE IF m # 0
       THEN [processed |-> MarkAndTrim(set, signature),
             deposit |-> <<[signature |-> signature,
                            userPublicKey |-> ixs[m].parsed.info.source,
                            amount |-> ixs[m].parsed.info.lamports]>>]
       ELSE [processed |-> SetAdd(set, signature), deposit |-> <<>>]

\* a handleTransaction that tolerates a null inner-instruction group
HandleTransactionSkippingNullGroup(tx, set) ==
    LET signature == FirstSignature(tx)
        ixs == AllInstructions(tx)
        m == FirstMatch(ixs)
    IN IF signature = NoSignature \/ Has(set, signature)
       THEN [processed |-> set, deposit |-> <<>>]
       ELSE IF tx.err
       THEN [processed |-> SetAdd(set, signature), deposit |-> <<>>]
       ELSE IF m # 0
       THEN [processed |-> MarkAndTrim(set, signature),
             deposit |-> <<[signature |-> signature,
                            userPublicKey |-> ixs[m].parsed.info.source,
                            amount |-> ixs[m].parsed.info.lamports]>>]
       ELSE [processed |-> SetAdd(set, signature), deposit |-> <<>>]

\* a handleTransaction without the membership test of its second line
HandleTransactionNoDuplicateCheck(tx, set) ==
    LET signature == FirstSignature(tx)
        ixs == AllInstructions(tx)
        m == FirstMatch(ixs)
    IN IF signature = NoSignature
       THEN [processed |-> set, deposit |-> <<>>]
       ELSE IF tx.err
       THEN [processed |-> SetAdd(set, signature), deposit |-> <<>>]
       ELSE IF Throws(tx)
       THEN [processed |-> set, deposit |-> <<>>]
       ELSE IF m # 0
       THEN [processed |-> MarkAndTrim(set, signature),
             deposit |-> <<[signature |-> signature,
                            userPublicKey |-> ixs[m].parsed.info.source,
                            amount |-> ixs[m].parsed.info.lamports]>>]
       ELSE [processed |-> SetAdd(set, signature), deposit |-> <<>>]

\* handleTransaction up to its only await: the set it leaves and the deposit
\* it hands to handleDeposit, if any
HandleTransaction(tx, set) ==
    LET signature == FirstSignature(tx)
        ixs == AllInstructions(tx)
        m == FirstMatch(ixs)
    IN IF signature = NoSignature \/ Has(set, signature)
       THEN [processed |-> set, deposit |-> <<>>]
       ELSE IF tx.err
       THEN [processed |-> SetAdd(set, signature), deposit |-> <<>>]
       ELSE IF Throws(tx)
       THEN [processed |-> set, deposit |-> <<>>]
       ELSE IF m # 0
       THEN [processed |-> MarkAndTrim(set, signature),
             deposit |-> <<[signature |-> signature,
                            userPublicKey |-> ixs[m].parsed.info.source,
                            amount |-> ixs[m].parsed.info.lamports]>>]
       ELSE [processed |-> SetAdd(set, signature), deposit |-> <<>>]

(***************************************************************************)
(* checkRecentTransactions, started by the interval timer and by an        *)
(* accountNotification, and the ledger it reads.                           *)
(***************************************************************************)

\* a transaction involving the deposit address is confirmed on chain
NewTx(shape) ==
    /\ Len(chain) < NumSigs
    /\ chain' = Append(chain, MakeTx(Len(chain) + 1, shape))
    /\ UNCHANGED <<processedSignatures, scans, invoked, delivered, failed, handled,
                   minted, positions, deposits, balances, yields, credited,
                   withdrawals, discarded>>
    /\ UNCHANGED connVars

\* getSignaturesForAddress(depositAddress, {limit}): most recent first
RecentSigs(c) ==
    [i \in 1..(IF Len(c) < Limit THEN Len(c) ELSE Limit) |-> Len(c) + 1 - i]

Running == BagToSet(scans)

\* the scans with execution r replaced by what became of it; an execution
\* that has returned is gone
Become(r, next) ==
    IF next = Idle
    THEN scans (-) SetToBag({r})
    ELSE (scans (-) SetToBag({r})) (+) SetToBag({next})

\* a call of checkRecentTransactions: getSignaturesForAddress is requested
BeginScan(src) ==
    /\ BagCardinality(scans) < MaxScans
    /\ scans' = scans (+) SetToBag({[pc |-> "sigs", src |-> src, todo |-> <<>>]})
    /\ Note("query")

\* the callback of setInterval, of the timer this.pollingInterval holds or
\* of one whose handle was overwritten
IntervalTick ==
    /\ pollingInterval = "live" \/ leakedIntervals > 0
    /\ BeginScan("poll")
    /\ UNCHANGED <<started, ws, sockets, subscribes, isReconnecting,
                   reconnectTimers, pollingInterval, leakedIntervals, stops, suppressed>>
    /\ UNCHANGED dispVars

\* ws.on("message") with an accountNotification
WsNotification(s) ==
    /\ sockets[s] = "OPEN"
    /\ BeginScan("push")
    /\ UNCHANGED <<started, ws, sockets, subscribes, isReconnecting,
                   reconnectTimers, pollingInterval, leakedIntervals, stops, suppressed>>
    /\ UNCHANGED dispVars

\* what arrives on a websocket: text that is not JSON, or a JSON object with
\* or without a result (a number, or something else) and a method
Messages ==
    [parses : {TRUE},
     result : {"none", "number", "other"},
     method : {"none", "accountNotification", "slotNotification"}]
      \cup {[parses |-> FALSE, result |-> "none", method |-> "none"]}

\* the message handler: JSON.parse throws into the catch block, a numeric
\* result is a subscription confirmation, an accountNotification starts a
\* scan, anything else falls through
OnMessage(message) ==
    IF ~message.parses THEN "caught"
    ELSE IF message.result = "number" THEN "confirmed"
    ELSE IF message.method = "accountNotification" THEN "scan"
    ELSE "ignored"

\* a message handler that calls reconnect() for a message it drops
WsMessageReconnecting(s, message) ==
    IF OnMessage(message) = "scan"
    THEN WsNotification(s)
    ELSE /\ sockets[s] = "OPEN"
         /\ discarded' = OnMessage(message)
         /\ CallReconnect
         /\ UNCHANGED <<started, ws, sockets, subscribes, pollingInterval,
                        leakedIntervals, stops, afterStop, scans>>
         /\ UNCHANGED <<chain, processedSignatures, invoked, delivered, failed,
                        handled, minted, positions, deposits, balances, yields,
                        credited, withdrawals>>

\* ws.on("message") with any message
WsMessage(s, message) ==
    IF OnMessage(message) = "scan"
    THEN WsNotification(s)
    ELSE /\ sockets[s] = "OPEN"
         /\ discarded' = OnMessage(message)
         /\ UNCHANGED connVars
         /\ UNCHANGED <<chain, processedSignatures, scans, invoked, delivered,
                        failed, handled, minted, positions, deposits, balances,
                        yields, credited, withdrawals>>

\* the for loop up to its next await: signatures already in the set are
\* passed over, the first other one is requested with getParsedTransaction
\* a loop without the membership test of its first line
SkipNothing(todo, set) == todo

RECURSIVE SkipProcessed(_, _)
SkipProcessed(todo, set) ==
    IF todo = <<>> THEN <<>>
    ELSE IF Has(set, Head(todo)) THEN SkipProcessed(Tail(todo), set)
    ELSE todo

Advance(src, todo, set) ==
    LET rest == SkipProcessed(todo, set)
    IN IF rest = <<>> THEN Idle ELSE [pc |-> "fetch", src |-> src, todo |-> rest]

\* a scan whose catch calls reconnect() when getSignaturesForAddress throws
ScanSignaturesReconnecting(r, ok) ==
    /\ r.pc = "sigs"
    /\ scans' = Become(r, IF ok
                          THEN Advance(r.src, RecentSigs(chain), processedSignatures)
                          ELSE Idle)
    /\ IF ok THEN UNCHANGED <<isReconnecting, reconnectTimers, suppressed>>
             ELSE CallReconnect
    /\ UNCHANGED <<started, ws, sockets, subscribes, pollingInterval,
                   leakedIntervals, stops, afterStop>>
    /\ UNCHANGED dispVars

\* getSignaturesForAddress returns, or throws into the catch of the scan
ScanSignatures(r, ok) ==
    /\ r.pc = "sigs"
    /\ scans' = Become(r, IF ok
                          THEN Advance(r.src, RecentSigs(chain), processedSignatures)
                          ELSE Idle)
    /\ UNCHANGED dispVars
    /\ UNCHANGED connVars

\* getParsedTransaction returns the record ("tx") or null, or throws; the
\* record goes through handleTransaction up to the await of handleDeposit
ScanFetched(r, result) ==
    /\ r.pc = "fetch"
    /\ LET sig == Head(r.todo)
           h == HandleTransaction(chain[sig], processedSignatures)
       IN CASE result = "throw" ->
                 /\ scans' = Become(r, Idle)
                 /\ UNCHANGED <<processedSignatures, invoked, delivered, handled>>
            [] result = "null" ->
                 /\ scans' = Become(r, Advance(r.src, Tail(r.todo), processedSignatures))
                 /\ UNCHANGED <<processedSignatures, invoked, delivered, handled>>
            [] result = "tx" ->
                 /\ delivered' = IF sig = Watched THEN delivered \cup {r.src} ELSE delivered
                 /\ processedSignatures' = h.processed
                 /\ IF h.deposit # <<>>
                    THEN /\ invoked[sig] < MaxInvocations
                         /\ invoked' = [invoked EXCEPT ![sig] = @ + 1]
                         /\ handled' = handled \cup {h.deposit[1]}
                         /\ scans' = Become(r, [r EXCEPT !.pc = "handler"])
                    ELSE /\ invoked' = invoked
                         /\ handled' = handled
                         /\ scans' = Become(r, Advance(r.src, Tail(r.todo), h.processed))
    /\ UNCHANGED <<chain, failed, minted, positions, deposits, balances, yields,
                   credited, withdrawals, discarded>>
    /\ UNCHANGED connVars

\* config.exchangeRate
ExchangeRate == 1

\* an lstSOL amount of half the deposited amount
MintAmountAtHalfRate(solAmount) == (solAmount * ExchangeRate) \div 2

\* mintLSTToUser: Math.floor(solAmount * config.exchangeRate), the floor of
\* a whole number of lamports times a whole rate
MintAmount(solAmount) == solAmount * ExchangeRate

\* the deposit handleTransaction builds from a record not seen before
DepositOf(tx) == HandleTransaction(tx, <<>>).deposit[1]

\* the position handleDeposit saves after the mint
PositionOf(deposit) ==
    [userPublicKey |-> deposit.userPublicKey,
     solDeposited |-> deposit.amount,
     lstTokensReceived |-> deposit.amount]

\* what handleDeposit and handleWithdrawal read and write: the collections of
\* the database and the token accounts
Book ==
    [deposits |-> deposits, minted |-> minted, balances |-> balances,
     positions |-> positions, yields |-> yields, credited |-> credited,
     withdrawals |-> withdrawals]

\* db.saveDeposit: insertOne
SaveDeposit(book, deposit) ==
    [book EXCEPT !.deposits = @ \cup {deposit.signature}]

\* tokenManager.mintLSTToUser, confirmed
MintLSTToUser(book, deposit) ==
    [book EXCEPT !.minted = @ \cup {MintAmount(deposit.amount)},
                 !.balances[deposit.userPublicKey] = @ + MintAmount(deposit.amount)]

\* db.savePosition: updateOne by userPublicKey with $set and upsert, which
\* replaces the fields of the user's document
SavePosition(collection, position) ==
    {q \in collection : q.userPublicKey # position.userPublicKey} \cup {position}

\* yieldGenerator.startYieldGeneration
StartYieldGeneration(book, deposit) ==
    [book EXCEPT !.yields = @ \cup {deposit.userPublicKey}]

\* a handleDeposit that mints before it saves the deposit
HandleDepositStepsMintFirst ==
    <<"mintLSTToUser", "saveDeposit", "savePosition", "startYieldGeneration">>

\* the awaited calls of handleDeposit's try block, in their order
HandleDepositSteps ==
    <<"saveDeposit", "mintLSTToUser", "savePosition", "startYieldGeneration">>

HandleDepositStep(book, deposit, step) ==
    CASE step = "saveDeposit" -> SaveDeposit(book, deposit)
      [] step = "mintLSTToUser" -> MintLSTToUser(book, deposit)
      [] step = "savePosition" ->
            [book EXCEPT !.positions = SavePosition(@, PositionOf(deposit))]
      [] step = "startYieldGeneration" -> StartYieldGeneration(book, deposit)

RECURSIVE RunSteps(_, _, _, _)
\* the first n of the steps, applied in order
RunSteps(book, deposit, steps, n) ==
    IF n = 0 THEN book
    ELSE HandleDepositStep(RunSteps(book, deposit, steps, n - 1), deposit, steps[n])

\* handleDeposit: reached of its calls resolved, then the next one threw
\* into the catch block, or all of them resolved
HandleDeposit(book, deposit, reached) ==
    LET after == RunSteps(book, deposit, HandleDepositSteps, reached)
    IN IF reached = Len(HandleDepositSteps)
       THEN [after EXCEPT !.credited[deposit.userPublicKey] = @ + deposit.amount]
       ELSE after

\* the collections and accounts become those of book
Commit(book) ==
    /\ deposits' = book.deposits
    /\ minted' = book.minted
    /\ balances' = book.balances
    /\ positions' = book.positions
    /\ yields' = book.yields
    /\ credited' = book.credited
    /\ withdrawals' = book.withdrawals

\* a handleDeposit without its catch block: its failure rejects, and the
\* rejection ends the scan in the catch of checkRecentTransactions
HandlerDoneTerminal(r, ok) ==
    /\ r.pc = "handler"
    /\ failed' = IF ~ok /\ Head(r.todo) = Watched
                 THEN failed \cup {Watched}
                 ELSE failed
    /\ scans' = Become(r, IF ok
                          THEN Advance(r.src, Tail(r.todo), processedSignatures)
                          ELSE Idle)
    /\ UNCHANGED <<chain, processedSignatures, invoked, delivered, handled,
                   minted, positions, deposits, balances, yields, credited,
                   withdrawals, discarded>>
    /\ UNCHANGED connVars

\* handleDeposit resolves: its try block ran through (ok) or one of its
\* calls threw into its catch block, which logs and returns; handleTransaction
\* returns and the loop of the scan goes on.  The collections and accounts
\* are followed for the deposit of transaction Watched
HandlerDone(r, ok) ==
    /\ r.pc = "handler"
    /\ failed' = IF ~ok /\ Head(r.todo) = Watched
                 THEN failed \cup {Watched}
                 ELSE failed
    /\ IF Head(r.todo) = Watched
       THEN \E reached \in IF ok THEN {Len(HandleDepositSteps)}
                                 ELSE 0..(Len(HandleDepositSteps) - 1) :
               Commit(HandleDeposit(Book, DepositOf(chain[Watched]), reached))
       ELSE UNCHANGED <<minted, positions, deposits, balances, yields, credited,
                        withdrawals>>
    /\ scans' = Become(r, Advance(r.src, Tail(r.todo), processedSignatures))
    /\ UNCHANGED <<chain, processedSignatures, invoked, delivered, handled,
                   discarded>>
    /\ UNCHANGED connVars

Next ==
    \/ Start
    \/ StartWithoutKey
    \/ ReconnectTimeout
    \/ \E s \in 1..Len(sockets) : WsOpen(s)
    \/ \E s \in 1..Len(sockets) : WsError(s)
    \/ \E s \in 1..Len(sockets) : WsClose(s)
    \/ Stop
    \/ \E shape \in TxShapes : NewTx(shape)
    \/ IntervalTick
    \/ \E s \in 1..Len(sockets) : WsNotification(s)
    \/ \E r \in Running, ok \in BOOLEAN : ScanSignatures(r, ok)
    \/ \E r \in Running, result \in {"tx", "null", "throw"} : ScanFetched(r, result)
    \/ \E r \in Running, ok \in BOOLEAN : HandlerDone(r, ok)

Spec == Init /\ [][Next]_vars

(***************************************************************************)
(* Two parts of the behaviour, each explored on its own.  SpecConn is the  *)
(* connection lifecycle from construction on, over an address without      *)
(* transactions.  SpecDispatch is the dispatch of the transactions of the  *)
(* address by a monitor that is up: main has started it, its websocket is  *)
(* open and subscribed and its interval timer runs (the state Start and    *)
(* WsOpen(1) lead to).                                                     *)
(***************************************************************************)
NextConn ==
    \/ Start
    \/ ReconnectTimeout
    \/ \E s \in 1..Len(sockets) : WsOpen(s)
    \/ \E s \in 1..Len(sockets) : WsError(s)
    \/ \E s \in 1..Len(sockets) : WsClose(s)
    \/ Stop
    \/ IntervalTick
    \/ \E s \in 1..Len(sockets) : WsNotification(s)
    \/ \E r \in Running, ok \in BOOLEAN : ScanSignatures(r, ok)

SpecConn == Init /\ [][NextConn]_vars

InitUp ==
    /\ started = TRUE
    /\ ws = 1
    /\ sockets = <<"OPEN">>
    /\ subscribes = <<1>>
    /\ isReconnecting = FALSE
    /\ reconnectTimers = 0
    /\ pollingInterval = "live"
    /\ leakedIntervals = 0
    /\ stops = 0
    /\ afterStop = {}
    /\ suppressed = FALSE
    /\ chain = <<>>
    /\ processedSignatures = <<>>
    /\ scans = EmptyBag
    /\ invoked = [s \in Sigs |-> 0]
    /\ delivered = {}
    /\ failed = {}
    /\ handled = {}
    /\ minted = {}
    /\ positions = {}
    /\ deposits = {}
    /\ balances = [u \in Users |-> 0]
    /\ yields = {}
    /\ credited = [u \in Users |-> 0]
    /\ withdrawals = {}
    /\ discarded = "none"

NextDispatch ==
    \/ \E shape \in TxShapes : NewTx(shape)
    \/ IntervalTick
    \/ \E s \in 1..Len(sockets) : WsNotification(s)
    \/ \E r \in Running, ok \in BOOLEAN : ScanSignatures(r, ok)
    \/ \E r \in Running, result \in {"tx", "null", "throw"} : ScanFetched(r, result)
    \/ \E r \in Running, ok \in BOOLEAN : HandlerDone(r, ok)

SpecDispatch == InitUp /\ [][NextDispatch]_vars

(***************************************************************************)
(* Claims about the connection lifecycle, checked under SpecConn.          *)
(***************************************************************************)

\* C3: once stop() has been called no new websocket is created, no
\* subscription request is sent and no recent-transactions query is issued.
C3_NothingAfterStop == stops > 0 => afterStop = {}

EventOnCurrent == ws # 0 /\ (WsError(ws) \/ WsClose(ws))

\* C5: an error or close event received while the subscription state is
\* Connecting or Subscribed moves it to Disconnected and leaves a reconnect
\* timer pending.
C5_EventSchedulesReconnect ==
    [][(SubscriptionState \in {"Connecting", "Subscribed"} /\ EventOnCurrent)
        => (SubscriptionState' = "Disconnected" /\ reconnectTimers' >= 1)]_vars

\* C6: when the subscribed connection closes or fails a reconnect timer is
\* pending afterwards; every connection that opens is sent one subscription
\* request at its open event; and at most one reconnect timer is pending at
\* any time, whatever error and close events arrive meanwhile.
C6_SingleReconnect ==
    /\ [](reconnectTimers <= 1)
    /\ [][(SubscriptionState = "Subscribed" /\ EventOnCurrent)
           => reconnectTimers' = 1]_vars
    /\ [][\A s \in 1..Len(sockets) :
             (sockets[s] = "CONNECTING" /\ sockets'[s] = "OPEN")
                => subscribes'[s] = subscribes[s] + 1]_vars

\* C6 witness: a close event arrived while a reconnect was pending and was
\* passed over, the reconnect took place, and the new connection is open
\* with its subscription request sent.
C6_Witness ==
    /\ suppressed
    /\ Len(sockets) >= 2
    /\ sockets[Len(sockets)] = "OPEN"
    /\ subscribes[Len(sockets)] = 1

(***************************************************************************)
(* Claims about the dispatch of transactions, checked under SpecDispatch.  *)
(***************************************************************************)

\* the running executions of checkRecentTransactions a source has started
RECURSIVE Copies(_, _)
Copies(rs, src) ==
    IF rs = {} THEN 0
    ELSE LET r == CHOOSE x \in rs : TRUE
         IN (IF r.src = src THEN CopiesIn(r, scans) ELSE 0) + Copies(rs \ {r}, src)

RunningOf(src) == Copies(Running, src)

\* C1: a successful deposit that a push-started scan and a poll-started
\* scan have both passed to handleTransaction has had handleDeposit
\* called exactly once.
C1_ExactlyOnce ==
    (delivered = {"push", "poll"} /\ IsDepositTx(chain[Watched]))
       => invoked[Watched] = 1

\* C2: handleDeposit is called at most once for any signature.
C2_AtMostOnce == \A sig \in Sigs : invoked[sig] <= 1

\* C7: polling ticks never overlap: at most one execution of
\* checkRecentTransactions started by the interval timer is in progress.
C7_NoOverlappingTicks == RunningOf("poll") <= 1

\* C8: the processed-signature set never holds more than its capacity.
C8_BoundedLedger == Len(processedSignatures) <= Capacity

\* C9: an insertion that pushes the processed-signature set over capacity
\* removes the entry inserted earliest and keeps the others in their order.
C9_EvictsOldest ==
    [][\A sig \in Sigs :
          (/\ ~Has(processedSignatures, sig)
           /\ Has(processedSignatures', sig)
           /\ Len(processedSignatures) >= Capacity)
             => processedSignatures' = Tail(Append(processedSignatures, sig))]_vars

\* C10: once handleDeposit has failed for a signature, handleDeposit is
\* never called for it again.
C10_NoRetryAfterFailure ==
    [][(Watched \in failed) => (invoked'[Watched] = invoked[Watched])]_vars


\* C11: a pending handleDeposit does not hold up the scan that called it:
\* no execution of checkRecentTransactions is suspended on handleDeposit
\* while a candidate of its list is still to be fetched.
C11_HandlerDoesNotBlock ==
    \A r \in Running :
        r.pc = "handler" => SkipProcessed(Tail(r.todo), processedSignatures) = <<>>

\* C12: a scan that leaves its fetch of one signature with candidates still
\* to come goes on to them, whatever the outcome of the fetch: it is still
\* running after the step.
C12_FetchErrorSkipsOne ==
    [][\A r \in Running :
          (/\ r.pc = "fetch"
           /\ CopiesIn(r, scans') < CopiesIn(r, scans)
           /\ SkipProcessed(Tail(r.todo), processedSignatures') # <<>>)
             => BagCardinality(scans') = BagCardinality(scans)]_vars

\* the executions that found has(sig) false in the pre-check of the loop and
\* now await getParsedTransaction(sig)
Fetching(sig) ==
    {r \in Running : r.pc = "fetch" /\ Head(r.todo) = sig}

RECURSIVE Count(_)
Count(rs) ==
    IF rs = {} THEN 0
    ELSE LET r == CHOOSE x \in rs : TRUE
         IN CopiesIn(r, scans) + Count(rs \ {r})

\* C18: for any signature at most one caller is past a membership test
\* that answered false.
C18_SingleObserver == \A sig \in Sigs : Count(Fetching(sig)) <= 1

\* C19: no interval timer is live other than the one this.pollingInterval
\* holds.
C19_SinglePollingTimer == leakedIntervals = 0

\* the websockets that are connecting or open
Live == {s \in 1..Len(sockets) : sockets[s] \in {"CONNECTING", "OPEN"}}

\* C20: at most one websocket of the monitor is connecting or open.
C20_SingleConnection == Cardinality(Live) <= 1


(***************************************************************************)
(* handleTransaction over the records getParsedTransaction can return for  *)
(* one signature.  SpecExtract is the monitor that is up (as InitUp) over  *)
(* an address with a single transaction, drawn from Records.               *)
(***************************************************************************)
MaxInstructions == 2
MaxGroups == 2

\* a parsed instruction of another program, or of another type, with the
\* same info as a transfer
Instruction(program, type, src, dst, lamports) ==
    [programId |-> program,
     parsed |-> [type |-> type,
                 info |-> [source |-> src, destination |-> dst, lamports |-> lamports]]]

TopInstructions ==
    {Transfer("bob", DepositAddress, 7),
     Transfer("alice", DepositAddress, 0),
     Transfer("alice", "bob", 5),
     Instruction("TokenkegQfeZyiNwAJbNbGKPFXCWuBvf9Ss623VQ5DA", "transfer",
                 "alice", DepositAddress, 5),
     Instruction(SystemProgram, "createAccount", "alice", DepositAddress, 5)}

InnerInstructions ==
    {Transfer("alice", DepositAddress, 5),
     Transfer("alice", "bob", 5)}

\* the sequences of at most n members of S
SeqsUpTo(S, n) == UNION {[1..k -> S] : k \in 0..n}

\* meta.innerInstructions: up to MaxGroups groups of one instruction each,
\* or one group of two
InnerGroups ==
    {[g \in 1..Len(f) |-> <<f[g]>>] : f \in SeqsUpTo(InnerInstructions, MaxGroups)}
      \cup {<<<<Transfer("alice", "bob", 5), Transfer("bob", DepositAddress, 7)>>>>}

\* the records of the transaction, and one record without signatures
Records ==
    [signatures : {<<Watched>>},
     err : BOOLEAN,
     instructions : SeqsUpTo(TopInstructions, MaxInstructions),
     innerInstructions : InnerGroups,
     nullGroup : {FALSE}]
      \cup {[signatures |-> <<>>, err |-> FALSE,
              instructions |-> <<Transfer("bob", DepositAddress, 7)>>,
              innerInstructions |-> <<>>, nullGroup |-> FALSE]}

InitExtract ==
    /\ started = TRUE
    /\ ws = 1
    /\ sockets = <<"OPEN">>
    /\ subscribes = <<1>>
    /\ isReconnecting = FALSE
    /\ reconnectTimers = 0
    /\ pollingInterval = "live"
    /\ leakedIntervals = 0
    /\ stops = 0
    /\ afterStop = {}
    /\ suppressed = FALSE
    /\ chain \in {<<tx>> : tx \in Records}
    /\ processedSignatures = <<>>
    /\ scans = EmptyBag
    /\ invoked = [s \in Sigs |-> 0]
    /\ delivered = {}
    /\ failed = {}
    /\ handled = {}
    /\ minted = {}
    /\ positions = {}
    /\ deposits = {}
    /\ balances = [u \in Users |-> 0]
    /\ yields = {}
    /\ credited = [u \in Users |-> 0]
    /\ withdrawals = {}
    /\ discarded = "none"

NextExtract ==
    \/ IntervalTick
    \/ \E s \in 1..Len(sockets) : WsNotification(s)
    \/ \E r \in Running, ok \in BOOLEAN : ScanSignatures(r, ok)
    \/ \E r \in Running, result \in {"tx", "null", "throw"} : ScanFetched(r, result)
    \/ \E r \in Running, ok \in BOOLEAN : HandlerDone(r, ok)

SpecExtract == InitExtract /\ [][NextExtract]_vars


(***************************************************************************)
(* Claims about handleTransaction, checked under SpecExtract.              *)
(***************************************************************************)

\* the record of the transaction and the instructions it lists anywhere
Record == chain[Watched]

Listed(tx) ==
    Range(tx.instructions)
      \cup UNION {Range(tx.innerInstructions[g]) : g \in 1..Len(tx.innerInstructions)}

\* a System Program transfer to the deposit address
TransferToDeposit(ix) ==
    /\ ix.programId = SystemProgram
    /\ ix.parsed.type = "transfer"
    /\ ix.parsed.info.destination = DepositAddress

\* the deposit handleDeposit is to receive for a transfer of a record
EventOf(tx, ix) ==
    [signature |-> tx.signatures[1],
     userPublicKey |-> ix.parsed.info.source,
     amount |-> ix.parsed.info.lamports]

\* handleTransaction has run on the record and kept its signature
Inspected == Has(processedSignatures, Watched)

\* C13: for a record whose execution failed (meta.err set) handleDeposit
\* is never called, whatever instructions it lists.
C13_FailedNeverDispatched ==
    Record.err => (invoked[Watched] = 0 /\ handled = {})

C13_Witness ==
    /\ Record.err
    /\ \E ix \in Listed(Record) : TransferToDeposit(ix)
    /\ Inspected

C15_OtherDestinationIgnored ==
    (\A ix \in Listed(Record) :
        ix.parsed.type = "transfer" => ix.parsed.info.destination # DepositAddress)
      => (invoked[Watched] = 0 /\ handled = {})

C15_Witness ==
    /\ ~Record.err
    /\ Inspected
    /\ Transfer("alice", "bob", 5) \in Listed(Record)
    /\ \A ix \in Listed(Record) : ix.parsed.info.destination # DepositAddress

\* the first System Program transfer to the deposit address of a sequence
\* of instructions
FirstOf(ixs) ==
    ixs[CHOOSE i \in 1..Len(ixs) :
           /\ TransferToDeposit(ixs[i])
           /\ \A j \in 1..(i - 1) : ~TransferToDeposit(ixs[j])]

Holds(ixs) == \E i \in 1..Len(ixs) : TransferToDeposit(ixs[i])

\* the transfer to report: the first of the top-level instructions, and if
\* they hold none the first of the first inner group that holds one
Reported(tx) ==
    IF Holds(tx.instructions) THEN FirstOf(tx.instructions)
    ELSE FirstOf(tx.innerInstructions[
             CHOOSE g \in 1..Len(tx.innerInstructions) :
                /\ Holds(tx.innerInstructions[g])
                /\ \A f \in 1..(g - 1) : ~Holds(tx.innerInstructions[f])])

\* the System Program transfers to the deposit address a record lists,
\* each occurrence counted
Occurrences(tx) ==
    Cardinality({i \in 1..Len(tx.instructions) : TransferToDeposit(tx.instructions[i])})
      + Cardinality({p \in UNION {{<<g, k>> : k \in 1..Len(tx.innerInstructions[g])} :
                                     g \in 1..Len(tx.innerInstructions)} :
                        TransferToDeposit(tx.innerInstructions[p[1]][p[2]])})

\* C16: for a successful record with several transfers to the deposit
\* address handleDeposit is called once, with the first of them in the
\* order top-level instructions, then inner groups.
C16_FirstTransferOnly ==
    (~Record.err /\ Inspected /\ Occurrences(Record) >= 2)
       => (invoked[Watched] = 1 /\ handled = {EventOf(Record, Reported(Record))})

C16_Witness ==
    /\ Inspected
    /\ Record.instructions = <<Transfer("alice", "bob", 5), Transfer("bob", DepositAddress, 7)>>
    /\ Record.innerInstructions = <<<<Transfer("alice", DepositAddress, 5)>>>>
    /\ handled = {[signature |-> Watched, userPublicKey |-> "bob", amount |-> 7]}

\* C17: every deposit handed to handleDeposit comes from a transfer to the
\* deposit address and has an amount above 0.
C17_PositiveAmount ==
    \A e \in handled :
        /\ e.amount > 0
        /\ \E ix \in Listed(Record) :
              ix.parsed.info.destination = DepositAddress /\ e = EventOf(Record, ix)


(***************************************************************************)
(* SpecPipeline: the whole monitor from construction on, main with or      *)
(* without a Helius API key, over an address that holds one deposit.       *)
(* SpecIsolate: the monitor that is up (as InitUp) over an address with    *)
(* two transactions of any shape, the null-group record included.          *)
(***************************************************************************)
InitPipeline ==
    /\ started = FALSE
    /\ ws = 0
    /\ sockets = <<>>
    /\ subscribes = <<>>
    /\ isReconnecting = FALSE
    /\ reconnectTimers = 0
    /\ pollingInterval = "null"
    /\ leakedIntervals = 0
    /\ stops = 0
    /\ afterStop = {}
    /\ suppressed = FALSE
    /\ chain = <<MakeTx(Watched, DepositShape)>>
    /\ processedSignatures = <<>>
    /\ scans = EmptyBag
    /\ invoked = [s \in Sigs |-> 0]
    /\ delivered = {}
    /\ failed = {}
    /\ handled = {}
    /\ minted = {}
    /\ positions = {}
    /\ deposits = {}
    /\ balances = [u \in Users |-> 0]
    /\ yields = {}
    /\ credited = [u \in Users |-> 0]
    /\ withdrawals = {}
    /\ discarded = "none"

NextPipeline ==
    \/ Start
    \/ StartWithoutKey
    \/ ReconnectTimeout
    \/ \E s \in 1..Len(sockets) : WsOpen(s)
    \/ \E s \in 1..Len(sockets) : WsError(s)
    \/ \E s \in 1..Len(sockets) : WsClose(s)
    \/ Stop
    \/ IntervalTick
    \/ \E s \in 1..Len(sockets) : WsNotification(s)
    \/ \E r \in Running, ok \in BOOLEAN : ScanSignatures(r, ok)
    \/ \E r \in Running, result \in {"tx", "null", "throw"} : ScanFetched(r, result)
    \/ \E r \in Running, ok \in BOOLEAN : HandlerDone(r, ok)

SpecPipeline == InitPipeline /\ [][NextPipeline]_vars

InitIsolate ==
    /\ started = TRUE
    /\ ws = 1
    /\ sockets = <<"OPEN">>
    /\ subscribes = <<1>>
    /\ isReconnecting = FALSE
    /\ reconnectTimers = 0
    /\ pollingInterval = "live"
    /\ leakedIntervals = 0
    /\ stops = 0
    /\ afterStop = {}
    /\ suppressed = FALSE
    /\ chain \in {<<MakeTx(1, first), MakeTx(2, second)>> :
                     first, second \in TxShapes \cup {NullGroupShape}}
    /\ processedSignatures = <<>>
    /\ scans = EmptyBag
    /\ invoked = [s \in Sigs |-> 0]
    /\ delivered = {}
    /\ failed = {}
    /\ handled = {}
    /\ minted = {}
    /\ positions = {}
    /\ deposits = {}
    /\ balances = [u \in Users |-> 0]
    /\ yields = {}
    /\ credited = [u \in Users |-> 0]
    /\ withdrawals = {}
    /\ discarded = "none"

NextIsolate ==
    \/ IntervalTick
    \/ \E s \in 1..Len(sockets) : WsNotification(s)
    \/ \E r \in Running, ok \in BOOLEAN : ScanSignatures(r, ok)
    \/ \E r \in Running, result \in {"tx", "null", "throw"} : ScanFetched(r, result)
    \/ \E r \in Running, ok \in BOOLEAN : HandlerDone(r, ok)

SpecIsolate == InitIsolate /\ [][NextIsolate]_vars


(***************************************************************************)
(* Frame of the subscription state, subscription requests, confinement of  *)
(* extraction and handler failures, duplicates.                            *)
(***************************************************************************)

\* C21: the websocket handle and the reconnect-in-progress flag are changed
\* only by the connection lifecycle code: every step of a scan (the tick
\* that starts it, its queries, the dispatch of a candidate, the return of
\* the handler) leaves both unchanged.
C21_SubscriptionStateFrame ==
    [][(scans' # scans \/ dispVars' # dispVars)
         => UNCHANGED <<ws, isReconnecting>>]_vars

\* a deposit has been dispatched and a scan is still running while a
\* reconnect is pending on the second socket
C21_Witness ==
    /\ ws = 2
    /\ isReconnecting
    /\ invoked[Watched] = 1
    /\ scans # EmptyBag

\* C22: each open event of a websocket sends exactly one subscribe message on
\* it, and no subscribe message is sent on a websocket that has not opened.
C22_OneSubscribePerOpen ==
    /\ [](\A s \in 1..Len(sockets) :
            sockets[s] = "CONNECTING" => subscribes[s] = 0)
    /\ [][\A s \in 1..Len(sockets) :
            /\ (sockets[s] = "CONNECTING" /\ sockets'[s] = "OPEN")
                 => subscribes'[s] = subscribes[s] + 1
            /\ subscribes'[s] # subscribes[s]
                 => (sockets[s] = "CONNECTING" /\ sockets'[s] = "OPEN")]_vars

\* the first socket failed before it opened; the second and the third opened
C22_Witness ==
    /\ Len(sockets) = 3
    /\ sockets[3] = "OPEN"
    /\ subscribes = <<0, 1, 1>>

\* C23: a record whose extraction throws never has handleDeposit called for
\* it, and the step in which it throws changes neither the processed set nor
\* any dispatch; the scan goes on to its remaining candidates.
C23_ExtractionErrorConfined ==
    /\ [](\A sig \in 1..Len(chain) : Throws(chain[sig]) => invoked[sig] = 0)
    /\ [][\A r \in Running :
            (/\ r.pc = "fetch"
             /\ ~chain[Head(r.todo)].err
             /\ Throws(chain[Head(r.todo)])
             /\ Head(r.todo) \notin Range(processedSignatures)
             /\ ScanFetched(r, "tx"))
              => /\ UNCHANGED <<processedSignatures, invoked, handled>>
                 /\ SkipProcessed(Tail(r.todo), processedSignatures) # <<>>
                      => \E q \in BagToSet(scans') :
                           /\ q.pc = "fetch"
                           /\ q.src = r.src
                           /\ q.todo = SkipProcessed(Tail(r.todo),
                                                     processedSignatures)]_vars

\* the newest record threw in a scan, which then dispatched the deposit
\* before it
C23_Witness ==
    /\ Throws(chain[2])
    /\ ~chain[2].err
    /\ IsDepositTx(chain[1])
    /\ invoked[1] = 1
    /\ invoked[2] = 0
    /\ processedSignatures = <<1>>
    /\ scans = EmptyBag

\* C24: a handleDeposit that fails leaves the polling timer, the sockets and
\* the processed set as they are and its scan goes on to the remaining
\* candidates; after the failure, a successful deposit with a new signature
\* and a well-formed record that a scan fetches is still dispatched.
C24_HandlerFailureNotTerminal ==
    /\ [][\A r \in Running :
            (r.pc = "handler" /\ HandlerDone(r, FALSE))
              => /\ UNCHANGED <<pollingInterval, leakedIntervals, sockets, ws,
                                processedSignatures>>
                 /\ SkipProcessed(Tail(r.todo), processedSignatures) # <<>>
                      => \E q \in BagToSet(scans') :
                           /\ q.pc = "fetch"
                           /\ q.todo = SkipProcessed(Tail(r.todo),
                                                     processedSignatures)]_vars
    /\ [][\A r \in Running :
            (/\ Watched \in failed
             /\ r.pc = "fetch"
             /\ Head(r.todo) \notin Range(processedSignatures)
             /\ IsDepositTx(chain[Head(r.todo)])
             /\ ~Throws(chain[Head(r.todo)])
             /\ ScanFetched(r, "tx"))
              => invoked'[Head(r.todo)] = invoked[Head(r.todo)] + 1]_vars

\* handleDeposit failed for the first deposit and a later deposit has been
\* dispatched while the polling timer runs
C24_Witness ==
    /\ Watched \in failed
    /\ pollingInterval = "live"
    /\ \E sig \in 2..Len(chain) : invoked[sig] = 1
    /\ Len(processedSignatures) >= 2

\* C25: when handleTransaction is given a record whose signature is in the
\* processed set, handleDeposit is not called, the set keeps its members and
\* their order, and nothing is recorded as failed.
C25_DuplicateIsNoOp ==
    [][\A r \in Running :
         (/\ r.pc = "fetch"
          /\ Head(r.todo) \in Range(processedSignatures)
          /\ ScanFetched(r, "tx"))
           => UNCHANGED <<processedSignatures, invoked, handled, failed,
                          minted, positions>>]_vars

\* both sources handed the deposit to handleTransaction and it was
\* dispatched once, its signature still in the set
C25_Witness ==
    /\ delivered = {"push", "poll"}
    /\ IsDepositTx(chain[Watched])
    /\ invoked[Watched] = 1
    /\ Watched \in Range(processedSignatures)


(***************************************************************************)
(* Polling beside the push connection, startup without an API key, the     *)
(* minted amount, and the order of marking and dispatching.                *)
(***************************************************************************)

\* C26: an error or a close of a websocket leaves the polling timers as they
\* are; a scan started by the timer lists every unprocessed signature of the
\* recent window, and when it fetches the record of an unprocessed deposit
\* it dispatches it, whatever the state of the subscription.
C26_PollingBackstop ==
    /\ [][(/\ stops' = stops
            /\ Len(sockets') = Len(sockets)
            /\ \E s \in 1..Len(sockets) :
                 /\ sockets'[s] # sockets[s]
                 /\ sockets'[s] \in {"CLOSING", "CLOSED"})
            => UNCHANGED <<pollingInterval, leakedIntervals>>]_vars
    /\ [][\A r \in Running :
            (r.pc = "sigs" /\ r.src = "poll" /\ ScanSignatures(r, TRUE)
             /\ SkipProcessed(RecentSigs(chain), processedSignatures) # <<>>)
              => \E q \in BagToSet(scans') :
                   /\ q.src = "poll"
                   /\ q.pc = "fetch"
                   /\ q.todo = SkipProcessed(RecentSigs(chain),
                                             processedSignatures)]_vars
    /\ [][\A r \in Running :
            (/\ r.pc = "fetch"
             /\ r.src = "poll"
             /\ Head(r.todo) \notin Range(processedSignatures)
             /\ IsDepositTx(chain[Head(r.todo)])
             /\ ScanFetched(r, "tx"))
              => invoked'[Head(r.todo)] = invoked[Head(r.todo)] + 1]_vars

\* the only websocket failed before it opened, so nothing was ever
\* subscribed, and the timer's scan dispatched the deposit
C26_Witness ==
    /\ sockets = <<"CLOSED">>
    /\ subscribes = <<0>>
    /\ SubscriptionState = "Disconnected"
    /\ pollingInterval = "live"
    /\ delivered = {"poll"}
    /\ invoked[Watched] = 1

\* C27: after a startup without an API key (started, no websocket ever
\* created) a polling timer is running.
C27_PollsWithoutKey ==
    (started /\ ws = 0 /\ sockets = <<>>) => pollingInterval = "live"

\* C28: at the exchange rate of 1 every amount minted is the amount of the
\* deposit, and every position saved records as lstTokensReceived an amount
\* that was minted, equal to the amount deposited.
C28_MintedOneToOne ==
    /\ \A m \in minted : \E e \in handled : m = e.amount
    /\ \A p \in positions :
         /\ p.lstTokensReceived \in minted
         /\ p.lstTokensReceived = p.solDeposited
         /\ \E e \in handled : /\ e.userPublicKey = p.userPublicKey
                               /\ e.amount = p.solDeposited

\* bob's deposit of 7 was minted as 7 and his position saved
C28_Witness ==
    /\ ExchangeRate = 1
    /\ minted = {7}
    /\ positions = {[userPublicKey |-> "bob", solDeposited |-> 7,
                     lstTokensReceived |-> 7]}

\* C29: the step that calls handleDeposit for a signature is the step that
\* found the signature absent from the processed set and inserted it; while
\* the call is pending the signature was inserted by that step.
C29_MarkedBeforeHandler ==
    [][\A sig \in Sigs :
         invoked'[sig] > invoked[sig]
           => /\ sig \notin Range(processedSignatures)
              /\ sig \in Range(processedSignatures')
              /\ \E q \in BagToSet(scans') :
                   q.pc = "handler" /\ Head(q.todo) = sig]_vars

\* the fourth deposit was inserted into the full set, the oldest signature
\* was dropped, and handleDeposit is pending for it
C29_Witness ==
    /\ processedSignatures = <<2, 3, 4>>
    /\ invoked[4] = 1
    /\ \E q \in Running : q.pc = "handler" /\ Head(q.todo) = 4

\* C30: with no eviction, handleDeposit has been called once for every
\* successful deposit whose signature is in the processed set and never for
\* any other record, also when two scans passed the membership check of the
\* loop for the same signature.
C30_ConcurrentScansDispatchOnce ==
    \A sig \in 1..Len(chain) :
        invoked[sig] = IF /\ IsDepositTx(chain[sig])
                          /\ ~Throws(chain[sig])
                          /\ sig \in Range(processedSignatures)
                       THEN 1 ELSE 0

\* a scan of each source passed the check of the loop for the deposit and
\* fetched it; both have returned and it was dispatched once
C30_Witness ==
    /\ delivered = {"push", "poll"}
    /\ IsDepositTx(chain[Watched])
    /\ invoked[Watched] = 1
    /\ scans = EmptyBag
    /\ Len(processedSignatures) <= Len(chain)


(***************************************************************************)
(* Deposits only, arriving while scans run, every handleDeposit running    *)
(* through: the ledger fills and evicts.                                   *)
(***************************************************************************)

NextLedger ==
    \/ NewTx(DepositShape)
    \/ IntervalTick
    \/ \E r \in Running, ok \in BOOLEAN : ScanSignatures(r, ok)
    \/ \E r \in Running, result \in {"tx", "null", "throw"} : ScanFetched(r, result)
    \/ \E r \in Running : HandlerDone(r, TRUE)

SpecLedger == InitUp /\ [][NextLedger]_vars

(***************************************************************************)
(* The monitor started with an API key and stopped by SIGINT, with no      *)
(* notification ever delivered: the timer is the only source of scans.     *)
(***************************************************************************)

NextBackstop ==
    \/ Start
    \/ Stop
    \/ ReconnectTimeout
    \/ \E s \in 1..Len(sockets) : WsOpen(s) \/ WsError(s) \/ WsClose(s)
    \/ IntervalTick
    \/ \E r \in Running, ok \in BOOLEAN : ScanSignatures(r, ok)
    \/ \E r \in Running, result \in {"tx", "null", "throw"} : ScanFetched(r, result)
    \/ \E r \in Running, ok \in BOOLEAN : HandlerDone(r, ok)

SpecBackstop == InitPipeline /\ [][NextBackstop]_vars


(***************************************************************************)
(* The connection lifecycle with its scheduling: a pending setTimeout      *)
(* fires, every socket reports what became of it, and a service that keeps *)
(* accepting connections opens one of the sockets that wait for it.        *)
(***************************************************************************)

SpecConnFair ==
    /\ Init
    /\ [][NextConn]_vars
    /\ WF_vars(ReconnectTimeout)
    /\ WF_vars(\E s \in 1..Len(sockets) : WsOpen(s) \/ WsError(s) \/ WsClose(s))
    /\ SF_vars(\E s \in 1..Len(sockets) : WsOpen(s))

\* before any stop(): the flag is set while no reconnect timer is pending and
\* no websocket is open or opening
FlagSetAlone ==
    /\ started
    /\ stops = 0
    /\ isReconnecting
    /\ reconnectTimers = 0
    /\ \A s \in 1..Len(sockets) : sockets[s] \notin {"CONNECTING", "OPEN"}

\* C31: the reconnect-in-progress flag never stays set forever while no
\* reconnect timer is pending and no connection is open or opening.
C31_ReconnectRecovers == [](FlagSetAlone => <>(~FlagSetAlone))


(***************************************************************************)
(* Records that are inspected and found not to be deposits.                *)
(***************************************************************************)

\* a record handleTransaction reads through without finding a deposit: a
\* failed transaction, or one without a transfer to the deposit address
NotADeposit(tx) ==
    tx.err \/ (~Throws(tx) /\ FirstMatch(AllInstructions(tx)) = 0)

\* C32: handleDeposit is never called for a failed transaction or one without
\* a transfer to the deposit address; the step that inspects such a record
\* puts its signature into the processed set; and no scan requests the full
\* record of a signature that is in the processed set.
C32_InspectedOnce ==
    /\ [](\A sig \in 1..Len(chain) : NotADeposit(chain[sig]) => invoked[sig] = 0)
    /\ [][\A r \in Running :
            (/\ r.pc = "fetch"
             /\ NotADeposit(chain[Head(r.todo)])
             /\ ScanFetched(r, "tx"))
              => Head(r.todo) \in Range(processedSignatures')]_vars
    /\ [][\A q \in BagToSet(scans') :
            (q.pc = "fetch" /\ CopiesIn(q, scans') > CopiesIn(q, scans))
              => Head(q.todo) \notin Range(processedSignatures')]_vars

\* the newer transaction failed and is marked; a scan of the timer has passed
\* over it and requested the older one
C32_Witness ==
    /\ chain[2].err
    /\ processedSignatures = <<2>>
    /\ invoked[2] = 0
    /\ \E r \in Running : r.src = "poll" /\ r.pc = "fetch" /\ r.todo = <<1>>


(***************************************************************************)
(* The order of the calls of handleDeposit.                                *)
(***************************************************************************)

\* C33: for the deposit of the watched transaction, lstSOL is minted only
\* once the deposit is saved, the position is saved only once the mint
\* succeeded, and yield generation is started only once the position is
\* saved; a handleDeposit that failed started no yield generation, and its
\* failure leaves the scan that called it running on its next candidate.
C33_HandleDepositInOrder ==
    /\ [](/\ minted # {} => Watched \in deposits
          /\ positions # {} => minted # {}
          /\ yields # {} => positions # {}
          /\ (Watched \in failed /\ invoked[Watched] = 1) => yields = {})
    /\ [][\A r \in Running :
            (/\ r.pc = "handler"
             /\ SkipProcessed(Tail(r.todo), processedSignatures) # <<>>
             /\ HandlerDone(r, FALSE))
              => \E q \in BagToSet(scans') :
                   /\ q.src = r.src
                   /\ q.pc = "fetch"
                   /\ Head(q.todo) = Head(SkipProcessed(Tail(r.todo),
                                                       processedSignatures))]_vars

\* handleDeposit failed in savePosition: the deposit is saved and minted, no
\* position is stored and no yield generation was started
C33_Witness ==
    /\ Watched \in failed
    /\ invoked[Watched] = 1
    /\ Watched \in deposits
    /\ minted # {}
    /\ positions = {}
    /\ yields = {}


(***************************************************************************)
(* TransactionHandler on its own: handleDeposit and handleWithdrawal are   *)
(* called one after the other with deposits and withdrawals of two users.  *)
(***************************************************************************)

\* the DepositTransaction values handleDeposit is called with
DepositEvents ==
    {[signature |-> 1, userPublicKey |-> "alice", amount |-> 5],
     [signature |-> 2, userPublicKey |-> "alice", amount |-> 7],
     [signature |-> 3, userPublicKey |-> "bob", amount |-> 7]}

\* the WithdrawalTransaction values handleWithdrawal is called with
WithdrawalEvents ==
    {[signature |-> 1, userPublicKey |-> "alice", lstAmount |-> 5],
     [signature |-> 2, userPublicKey |-> "alice", lstAmount |-> 12],
     [signature |-> 3, userPublicKey |-> "bob", lstAmount |-> 7]}

\* db.saveWithdrawal: insertOne
SaveWithdrawal(book, withdrawal) ==
    [book EXCEPT !.withdrawals = @ \cup {withdrawal}]

\* the token program burns only what the account holds
CanBurn(book, withdrawal) ==
    book.balances[withdrawal.userPublicKey] >= withdrawal.lstAmount

\* tokenManager.burnLSTAndReturnSOL, confirmed
BurnLSTAndReturnSOL(book, withdrawal) ==
    [book EXCEPT !.balances[withdrawal.userPublicKey] = @ - withdrawal.lstAmount]

\* "Update database": getPosition, and if there is a position the
\* subtraction and savePosition
UpdatePosition(book, withdrawal) ==
    LET found == {p \in book.positions : p.userPublicKey = withdrawal.userPublicKey}
    IN IF found = {} THEN book
       ELSE LET position == CHOOSE p \in found : TRUE
            IN [book EXCEPT !.positions =
                   SavePosition(@, [position EXCEPT !.lstTokensReceived =
                                                       @ - withdrawal.lstAmount])]

\* the awaited calls of handleWithdrawal's try block, in their order
HandleWithdrawalSteps == <<"saveWithdrawal", "burnLSTAndReturnSOL", "savePosition">>

\* handleWithdrawal: reached of its calls resolved, then the next one threw
\* into the catch block, or all of them resolved
HandleWithdrawal(book, withdrawal, reached) ==
    LET saved == IF reached >= 1 THEN SaveWithdrawal(book, withdrawal) ELSE book
        burned == IF reached >= 2 THEN BurnLSTAndReturnSOL(saved, withdrawal) ELSE saved
    IN IF reached >= 3 THEN UpdatePosition(burned, withdrawal) ELSE burned

\* a call of handleDeposit with a deposit it has not been called with
HandleDepositCall(deposit, reached) ==
    /\ deposit \notin handled
    /\ handled' = handled \cup {deposit}
    /\ invoked' = [invoked EXCEPT ![deposit.signature] = @ + 1]
    /\ failed' = IF reached < Len(HandleDepositSteps) /\ deposit.signature = Watched
                 THEN failed \cup {Watched}
                 ELSE failed
    /\ Commit(HandleDeposit(Book, deposit, reached))
    /\ UNCHANGED <<chain, processedSignatures, scans, delivered, discarded>>
    /\ UNCHANGED connVars

\* a call of handleWithdrawal with a withdrawal not saved before; the burn
\* is confirmed only if the user holds the amount
HandleWithdrawalCall(withdrawal, reached) ==
    /\ withdrawal \notin withdrawals
    /\ reached >= 2 => CanBurn(Book, withdrawal)
    /\ Commit(HandleWithdrawal(Book, withdrawal, reached))
    /\ UNCHANGED <<chain, processedSignatures, scans, invoked, delivered, failed,
                   handled, discarded>>
    /\ UNCHANGED connVars

NextHandler ==
    \/ \E deposit \in DepositEvents, reached \in 0..Len(HandleDepositSteps) :
          HandleDepositCall(deposit, reached)
    \/ \E withdrawal \in WithdrawalEvents, reached \in 0..Len(HandleWithdrawalSteps) :
          HandleWithdrawalCall(withdrawal, reached)

SpecHandler == Init /\ [][NextHandler]_vars

RECURSIVE SumOf(_)
\* the lamports of a set of deposits
SumOf(events) ==
    IF events = {} THEN 0
    ELSE LET e == CHOOSE x \in events : TRUE
         IN e.amount + SumOf(events \ {e})

\* the lamports handleDeposit was called with for a user
DepositedBy(user) == SumOf({e \in handled : e.userPublicKey = user})

\* C34: when every handleDeposit so far ran through and nothing was
\* withdrawn, the position of each user who deposited holds the sum of the
\* amounts deposited as solDeposited and the sum of the amounts minted as
\* lstTokensReceived.
C34_PositionHoldsSums ==
    (/\ withdrawals = {}
     /\ \A u \in Users : credited[u] = DepositedBy(u))
      => \A u \in Users :
           credited[u] > 0
             => \E p \in positions :
                  /\ p.userPublicKey = u
                  /\ p.solDeposited = credited[u]
                  /\ p.lstTokensReceived = balances[u]

\* C35: no stored position has a negative lstTokensReceived.
C35_PositionNeverNegative ==
    \A p \in positions : p.lstTokensReceived >= 0


(***************************************************************************)
(* The monitor that is up, receiving every kind of message while its scans *)
(* run.                                                                    *)
(***************************************************************************)

NextMessages ==
    \/ \E s \in 1..Len(sockets), message \in Messages : WsMessage(s, message)
    \/ \E r \in Running, ok \in BOOLEAN : ScanSignatures(r, ok)
    \/ \E r \in Running, result \in {"tx", "null", "throw"} : ScanFetched(r, result)
    \/ \E r \in Running, ok \in BOOLEAN : HandlerDone(r, ok)

SpecMessages == InitIsolate /\ [][NextMessages]_vars

\* C36: a message that is not JSON, that confirms the subscription, or that
\* carries no accountNotification calls handleDeposit for nothing, leaves the
\* processed set as it is, starts no scan, schedules no reconnect and leaves
\* the connection Subscribed.
C36_DroppedMessageChangesNothing ==
    [][\A s \in 1..Len(sockets), message \in Messages :
         (OnMessage(message) # "scan" /\ WsMessage(s, message))
           => /\ UNCHANGED <<invoked, handled, processedSignatures, scans>>
              /\ UNCHANGED <<ws, sockets, subscribes, isReconnecting,
                             reconnectTimers>>
              /\ SubscriptionState' = "Subscribed"]_vars

\* a message that is not JSON was dropped after a notification had led to
\* the dispatch of the deposit: the connection is Subscribed and nothing is
\* scheduled
C36_Witness ==
    /\ discarded = "caught"
    /\ SubscriptionState = "Subscribed"
    /\ ~isReconnecting
    /\ reconnectTimers = 0
    /\ invoked[Watched] = 1

=============================================================================
